---- MODULE Spec2Model ----
(***************************************************************************)
(* Model of the dispatcher (src/dispatcher.ts): the queue registry, the    *)
(* request table with its waiter sets, the per-client cooldown store with  *)
(* its textual codec, the scheduler behind GET /, the enqueue handler      *)
(* behind POST / and the delivery handler behind POST /<key>; and of the   *)
(* one-shot fetcher (src/netlify/functions/netlify-cron.mts).              *)
(*                                                                         *)
(* Every `await` of a handler is a step boundary: the handlers are split   *)
(* into one action per synchronous stretch of code, and the actions of     *)
(* different requests interleave freely.  Strings that the code scans      *)
(* character by character (queue names, the encoded cooldowns) are tuples  *)
(* of one-character strings.                                               *)
(***************************************************************************)
EXTENDS Integers, Sequences, FiniteSets, TLC

(***************************************************************************)
(* Bounds of the model.                                                    *)
(***************************************************************************)
\* milliseconds that pass in one Tick
Step == 5000
\* Spec: the number of Ticks, of POST / requests (enqueues) and of
\* POST /<key> requests (deliveries) in a behaviour
MaxTicks == 1
MaxCallers == 2
MaxDeliveries == 2

(***************************************************************************)
(* Program constants.                                                      *)
(***************************************************************************)
TIMEOUT == 10000
DEFAULT_DELAY == 60000

\* Date.now() when the process starts: some positive epoch time
StartAt == Step

(***************************************************************************)
(* JavaScript values.  undefined and NaN are represented by -1: every      *)
(* genuine number of the model (a time, a counter) is >= 0.                *)
(***************************************************************************)
Undefined == 0 - 1
NaN == 0 - 1

\* a < b on JavaScript numbers: false as soon as one side is NaN/undefined
JsLess(a, b) == a # NaN /\ b # NaN /\ a < b
\* a - b on JavaScript numbers
JsMinus(a, b) == IF a = NaN \/ b = NaN THEN NaN ELSE a - b
\* truthiness of a number: 0, NaN and undefined are falsy
Truthy(n) == n # NaN /\ n # 0

Range(s) == {s[i] : i \in 1..Len(s)}

(***************************************************************************)
(* Number <-> decimal string, as String(n) / Number(s) do for the          *)
(* non-negative integers and the digit strings of the model.  Number of    *)
(* the empty string is 0, Number of a string with a non-digit is NaN.      *)
(***************************************************************************)
Digits == <<"0", "1", "2", "3", "4", "5", "6", "7", "8", "9">>

RECURSIVE NumberToString(_)
NumberToString(n) ==
  IF n < 10 THEN <<Digits[n + 1]>>
  ELSE NumberToString(n \div 10) \o <<Digits[(n % 10) + 1]>>

DigitValue(c) == (CHOOSE d \in 1..10 : Digits[d] = c) - 1

RECURSIVE ParseDigits(_, _)
ParseDigits(s, acc) ==
  IF s = <<>> THEN acc
  ELSE ParseDigits(Tail(s), acc * 10 + DigitValue(Head(s)))

Number(s) ==
  IF s = <<>> THEN 0
  ELSE IF \A i \in 1..Len(s) : s[i] \in Range(Digits) THEN ParseDigits(s, 0)
  ELSE NaN

(***************************************************************************)
(* TimersInfo: a JavaScript object from queue name to unlock time, kept    *)
(* as the sequence of its [name, unlockAt] entries in property order       *)
(* (insertion order: no queue name of the model is an array index).        *)
(***************************************************************************)
TimersGet(timers, name) ==
  IF \E i \in 1..Len(timers) : timers[i].name = name
  THEN (timers[CHOOSE i \in 1..Len(timers) : timers[i].name = name]).unlockAt
  ELSE Undefined

TimersSet(timers, name, unlockAt) ==
  IF \E i \in 1..Len(timers) : timers[i].name = name
  THEN [i \in 1..Len(timers) |->
          IF timers[i].name = name
          THEN [name |-> name, unlockAt |-> unlockAt] ELSE timers[i]]
  ELSE Append(timers, [name |-> name, unlockAt |-> unlockAt])

\* Object.entries(timers).join(): "name,value,name,value"
RECURSIVE encodeTimers(_)
encodeTimers(timers) ==
  IF timers = <<>> THEN <<>>
  ELSE LET e == Head(timers)
           one == e.name \o <<",">> \o NumberToString(e.unlockAt)
       IN IF Len(timers) = 1 THEN one
          ELSE one \o <<",">> \o encodeTimers(Tail(timers))

\* the scanning loop of decodeTimers, from index i (1-based) on
RECURSIVE decodeLoop(_, _, _, _, _, _)
decodeLoop(encodedTimers, i, queueName, currentStr, timers, t) ==
  IF i > Len(encodedTimers) + 1 THEN timers
  ELSE
    LET atEnd == i = Len(encodedTimers) + 1
    IN IF atEnd \/ encodedTimers[i] = ","
       THEN IF queueName = <<>>
            THEN decodeLoop(encodedTimers, i + 1, currentStr, <<>>, timers, t)
            ELSE LET unlockAt == Number(currentStr)
                     kept == IF Truthy(unlockAt) /\ unlockAt > t
                             THEN TimersSet(timers, queueName, unlockAt)
                             ELSE timers
                 IN decodeLoop(encodedTimers, i + 1, <<>>, <<>>, kept, t)
       ELSE decodeLoop(encodedTimers, i + 1, queueName,
                       Append(currentStr, encodedTimers[i]), timers, t)

\* decodeTimers at time t (the Date.now() it reads)
decodeTimers(encodedTimers, t) ==
  IF encodedTimers = <<>> THEN <<>>
  ELSE decodeLoop(encodedTimers, 1, <<>>, <<>>, <<>>, t)

(***************************************************************************)
(* Queue registry.  A RequestQueue is [name, delay]; its push closure is   *)
(* the operator push below.  QUEUES maps every registered host name (the   *)
(* canonical name and each alias) to its queue.                            *)
(***************************************************************************)
GOODREADS == <<"g","o","o","d","r","e","a","d","s",".","c","o","m">>
WWW_GOODREADS == <<"w","w","w",".">> \o GOODREADS
BEECEPTOR == <<"b","e","e","c","e","p","t","o","r",".","c","o","m">>
ANNAS_ORG == <<"a","n","n","a","s","-","a","r","c","h","i","v","e",".","o","r","g">>
ANNAS_SE == <<"a","n","n","a","s","-","a","r","c","h","i","v","e",".","s","e">>
ANNAS_LI == <<"a","n","n","a","s","-","a","r","c","h","i","v","e",".","l","i">>
AUDIOBOOKBAY_SE ==
  <<"t","h","e","a","u","d","i","o","b","o","o","k","b","a","y",".","s","e">>
AUDIOBOOKBAY_IP == <<"1","8","5",".","2","4","7",".","2","2","4",".","1","1","7">>
AUDIOBOOKBAY_IS == <<"a","u","d","i","o","b","o","o","k","b","a","y",".","i","s">>
AUDIOBOOKBAY_LU == <<"a","u","d","i","o","b","o","o","k","b","a","y",".","l","u">>
\* the host name of a URL without host, such as file:///c
EMPTY_HOST == <<>>

\* registerQueue(name, delay, aliases) applied to the registry Q
registerQueue(Q, name, delay, aliases) ==
  [h \in {name} \cup aliases |-> [name |-> name, delay |-> delay]] @@ Q

\* the registry after the start-up loop over the seed queues
SeedQueues ==
  LET q0 == << >>
      q1 == registerQueue(q0, GOODREADS, 30000, {WWW_GOODREADS})
      q2 == registerQueue(q1, BEECEPTOR, 1000, {})
      q3 == registerQueue(q2, ANNAS_ORG, 60000, {ANNAS_SE, ANNAS_LI})
  IN registerQueue(q3, AUDIOBOOKBAY_SE, 40000,
       {AUDIOBOOKBAY_IP, AUDIOBOOKBAY_IS, AUDIOBOOKBAY_LU})

(***************************************************************************)
(* Inputs.  A POST / body carries a url (given by the parts the URL parser *)
(* yields), an optional expire and an optional reply; a body that is not   *)
(* JSON or has no parsable url is BadBody.                                 *)
(***************************************************************************)
UrlA == [hostname |-> BEECEPTOR, pathname |-> "/a", search |-> ""]
UrlB == [hostname |-> BEECEPTOR, pathname |-> "/b", search |-> "?x"]
UrlC == [hostname |-> EMPTY_HOST, pathname |-> "/c", search |-> ""]
Urls == {UrlA, UrlB, UrlC}
\* URLs of the goodreads.com queue, by its name and by its alias
UrlG == [hostname |-> GOODREADS, pathname |-> "/a", search |-> ""]
UrlW == [hostname |-> WWW_GOODREADS, pathname |-> "/a", search |-> ""]
UrlH == [hostname |-> GOODREADS, pathname |-> "/b", search |-> ""]
AliasUrls == {UrlG, UrlW, UrlH}

NoUrl == [hostname |-> <<"?">>, pathname |-> "", search |-> ""]
Webhooks == {"hook"}
NoReply == "none"
BadBody == [valid |-> FALSE, url |-> NoUrl, expire |-> 0, reply |-> NoReply]

\* getKey: base58(SHA-384(text)), taken as collision free
getKey(text) == "#" \o text
\* `${queue.name}/${digest}`: neither part can hold the "/" separator
KeyOf(queueName, text) == <<queueName, getKey(text)>>
NoKey == <<<<"?">>, "">>

\* the queue name a host resolves to, in a registry that knows it or not
QueueNameOf(hostname) ==
  IF hostname \in DOMAIN SeedQueues THEN SeedQueues[hostname].name ELSE hostname
KeyOfUrl(u) == KeyOf(QueueNameOf(u.hostname), u.pathname \o u.search)
AllKeys == {KeyOfUrl(u) : u \in Urls \cup AliasUrls}
KeyA == KeyOfUrl(UrlA)
KeyB == KeyOfUrl(UrlB)
KeyC == KeyOfUrl(UrlC)

\* request headers of GET / and POST /<key>: header name -> value
HeadersGet(headers, name) ==
  IF name \in DOMAIN headers THEN headers[name] ELSE ""

(***************************************************************************)
(* State.                                                                  *)
(***************************************************************************)
VARIABLES
  now,          \* Date.now(); performance.now() is now - StartAt
  QUEUES,       \* host name -> RequestQueue
  REQUESTS,     \* the Map key -> PendingRequest, as the sequence of the
                \* PendingRequest ids it holds, in the Map's iteration order
  heap,         \* the PendingRequest objects ever created, by id
  localStorage, \* client id -> encoded cooldowns
  CLIENTS,      \* client id -> Client
  files,        \* the cache directory: key -> file
  callers,      \* the POST / requests: where each one is in its handler
  deliv,        \* the POST /<key> requests: where each one is in its handler
  ran,          \* requests that took a step while promise reactions wait
  sent,         \* the webhook POSTs started (sendReply(0) calls), in order
  get,          \* the last response of GET /
  dispatches,   \* per PendingRequest id: how often it was dispatched
  lastAt,       \* per <<client id, queue name>>: time of the last dispatch
  fetcher       \* a one-shot fetcher run and the executions it started

vars == <<now, QUEUES, REQUESTS, heap, localStorage, CLIENTS, files, callers,
          deliv, ran, sent, get, dispatches, lastAt, fetcher>>

Callers == DOMAIN callers
Deliveries == DOMAIN deliv

NoFile == [kind |-> "none", body |-> "", mtime |-> 0]
IdleCaller ==
  [pc |-> "idle", body |-> BadBody, key |-> NoKey, rid |-> 0, status |-> 0,
   got |-> "", cached |-> FALSE, nth |-> 0]
IdleDelivery ==
  [pc |-> "idle", key |-> NoKey, xstatus |-> 0, body |-> "", headers |-> << >>,
   rid |-> 0, status |-> 0, written |-> FALSE]
NoGet == [headers |-> << >>, status |-> 0, rid |-> 0, total |-> 0]
\* a fetcher run that has not asked for a request yet
IdleFetcher == [pc |-> "polling", executions |-> <<>>]

\* the state after start-up, with one of the cache directories in initial,
\* and room for nCallers POST / and nDeliveries POST /<key> requests
InitWith(initial, nCallers, nDeliveries) ==
  /\ now = StartAt
  /\ QUEUES = SeedQueues
  /\ REQUESTS = <<>>
  /\ heap = <<>>
  /\ localStorage = << >>
  /\ CLIENTS = << >>
  /\ files \in initial
  /\ callers = [p \in 1..nCallers |-> IdleCaller]
  /\ deliv = [d \in 1..nDeliveries |-> IdleDelivery]
  /\ ran = {}
  /\ sent = <<>>
  /\ get = NoGet
  /\ dispatches = <<>>
  /\ lastAt = << >>
  /\ fetcher = IdleFetcher

\* an empty cache directory
NoFiles == [k \in AllKeys |-> NoFile]
\* the file of key k was written before the process started
OldFile(k) ==
  [NoFiles EXCEPT ![k] = [kind |-> "file", body |-> "b0", mtime |-> 0]]

(***************************************************************************)
(* Helpers on the state.                                                   *)
(***************************************************************************)
\* a JavaScript Set, kept as the sequence of its members in insertion order
SetAdd(set, x) == IF x \in Range(set) THEN set ELSE Append(set, x)
SetDelete(set, x) == SelectSeq(set, LAMBDA y : y # x)

\* the two kinds of PendingRequestHandler
Resolver(p) == <<"resolve", p>>
ReplyUrl(u) == <<"url", u>>

\* REQUESTS.get(key): the id of the PendingRequest stored under key, 0 if none
RequestsGet(R, H, key) ==
  IF \E i \in 1..Len(R) : H[R[i]].key = key
  THEN R[CHOOSE i \in 1..Len(R) : H[R[i]].key = key]
  ELSE 0
\* REQUESTS.set(key, rid): an existing key keeps its place in the Map
RequestsSet(R, H, key, rid) ==
  IF \E i \in 1..Len(R) : H[R[i]].key = key
  THEN [i \in 1..Len(R) |-> IF H[R[i]].key = key THEN rid ELSE R[i]]
  ELSE Append(R, rid)
\* REQUESTS.delete(key)
RequestsDelete(R, H, key) == SelectSeq(R, LAMBDA r : H[r].key # key)

StorageGet(clientId) ==
  IF clientId \in DOMAIN localStorage THEN localStorage[clientId] ELSE <<>>

\* the streams whose promise is resolved and whose pull has not resumed yet
Resolved(c) == {p \in Callers : c[p].pc = "resolved"}
\* a request handler takes at most one step while promise reactions wait
Mark(x) == ran' = IF Resolved(callers') = {} THEN {} ELSE ran \cup {x}

(***************************************************************************)
(* Time.                                                                   *)
(***************************************************************************)
Tick(limit) ==
  /\ Resolved(callers) = {}
  /\ now + Step <= limit
  /\ now' = now + Step
  /\ UNCHANGED <<QUEUES, REQUESTS, heap, localStorage, CLIENTS, files, callers,
                 deliv, ran, sent, get, dispatches, lastAt, fetcher>>

(***************************************************************************)
(* GET /: getClient, getNextInQueue, handleRequestNextInQueue.             *)
(***************************************************************************)
\* the client id getClient reads from the request headers, "" if none
clientIdOf(headers) ==
  LET a == HeadersGet(headers, "x-client-id")
      b == HeadersGet(headers, "true-client-ip")
      c == HeadersGet(headers, "cf-connecting-ip")
      d == HeadersGet(headers, "x-forwared-for")
  IN IF a # "" THEN a ELSE IF b # "" THEN b ELSE IF c # "" THEN c ELSE d

\* CLIENTS after getClient for the client id (unchanged when there is none)
getClient(C, clientId, t) ==
  IF clientId = "" THEN C
  ELSE IF clientId \in DOMAIN C
  THEN [C EXCEPT ![clientId].activeAt = t]
  ELSE (clientId :> [id |-> clientId, activeAt |-> t, started |-> 0,
                     finished |-> 0]) @@ C

createdAtOf(H, rid) == IF rid = 0 THEN Undefined ELSE H[rid].createdAt

\* scan keeping the first of the requests of the smallest createdAt
RECURSIVE scan_KeepsFirst(_, _, _, _, _, _)
scan_KeepsFirst(R, H, timers, t, oldest, count) ==
  IF R = <<>> THEN [oldest |-> oldest, count |-> count]
  ELSE LET req == H[Head(R)]
       IN IF JsLess(JsMinus(t, req.startedAt), TIMEOUT)
          THEN scan_KeepsFirst(Tail(R), H, timers, t, oldest, count)
          ELSE IF Truthy(TimersGet(timers, req.queue))
          THEN scan_KeepsFirst(Tail(R), H, timers, t, oldest, count)
          ELSE IF oldest # 0 /\ createdAtOf(H, oldest) <= req.createdAt
          THEN scan_KeepsFirst(Tail(R), H, timers, t, oldest, count + 1)
          ELSE scan_KeepsFirst(Tail(R), H, timers, t, Head(R), count + 1)

\* the loop of getNextInQueue over REQUESTS.values(), from the sequence R on
RECURSIVE scan(_, _, _, _, _, _)
scan(R, H, timers, t, oldest, count) ==
  IF R = <<>> THEN [oldest |-> oldest, count |-> count]
  ELSE LET req == H[Head(R)]
       IN IF JsLess(JsMinus(t, req.startedAt), TIMEOUT)
          THEN scan(Tail(R), H, timers, t, oldest, count)
          ELSE IF Truthy(TimersGet(timers, req.queue))
          THEN scan(Tail(R), H, timers, t, oldest, count)
          ELSE IF JsLess(createdAtOf(H, oldest), req.createdAt)
          THEN scan(Tail(R), H, timers, t, oldest, count + 1)
          ELSE scan(Tail(R), H, timers, t, Head(R), count + 1)

\* getNextInQueue: the chosen request (0 if none), the count, and the store
getNextInQueue(clientId) ==
  LET timers == decodeTimers(StorageGet(clientId), now)
      found == scan(REQUESTS, heap, timers, now, 0, 0)
  IN IF found.oldest = 0
     THEN [next |-> 0, count |-> 0, store |-> localStorage]
     ELSE LET queue == QUEUES[heap[found.oldest].queue]
              after == TimersSet(timers, queue.name, now + queue.delay)
          IN [next |-> found.oldest, count |-> found.count,
              store |-> (clientId :> encodeTimers(after)) @@ localStorage]

\* handleRequestNextInQueue counting the first dispatch as an attempt too
handleRequestNextInQueue_CountsFirst(headers) ==
  LET clientId == clientIdOf(headers)
      known == getClient(CLIENTS, clientId, now)
      res == getNextInQueue(clientId)
      next == res.next
  IN IF clientId = ""
     THEN /\ get' = [headers |-> headers, status |-> 400,
                     rid |-> 0, total |-> 0]
          /\ UNCHANGED <<now, QUEUES, REQUESTS, heap, localStorage, CLIENTS,
                         files, callers, deliv, ran, sent, dispatches, lastAt,
                         fetcher>>
     ELSE IF next = 0
     THEN /\ CLIENTS' = known
          /\ get' = [headers |-> headers, status |-> 204,
                     rid |-> 0, total |-> 0]
          /\ UNCHANGED <<now, QUEUES, REQUESTS, heap, localStorage, files,
                         callers, deliv, ran, sent, dispatches, lastAt,
                         fetcher>>
     ELSE /\ CLIENTS' = [known EXCEPT ![clientId].started = @ + 1]
          /\ localStorage' = res.store
          /\ heap' = [heap EXCEPT
               ![next].attempts = @ + 1,
               ![next].startedAt = now]
          /\ get' = [headers |-> headers, status |-> 200,
                     rid |-> next, total |-> res.count]
          /\ dispatches' = [dispatches EXCEPT ![next] = @ + 1]
          /\ lastAt' = (<<clientId, heap[next].queue>> :> now) @@ lastAt
          /\ UNCHANGED <<now, QUEUES, REQUESTS, files, callers, deliv, ran,
                         sent, fetcher>>

\* GET /
handleRequestNextInQueue(headers) ==
  LET clientId == clientIdOf(headers)
      known == getClient(CLIENTS, clientId, now)
      res == getNextInQueue(clientId)
      next == res.next
  IN IF clientId = ""
     THEN /\ get' = [headers |-> headers, status |-> 400,
                     rid |-> 0, total |-> 0]
          /\ UNCHANGED <<now, QUEUES, REQUESTS, heap, localStorage, CLIENTS,
                         files, callers, deliv, ran, sent, dispatches, lastAt,
                         fetcher>>
     ELSE IF next = 0
     THEN /\ CLIENTS' = known
          /\ get' = [headers |-> headers, status |-> 204,
                     rid |-> 0, total |-> 0]
          /\ UNCHANGED <<now, QUEUES, REQUESTS, heap, localStorage, files,
                         callers, deliv, ran, sent, dispatches, lastAt,
                         fetcher>>
     ELSE /\ CLIENTS' = [known EXCEPT ![clientId].started = @ + 1]
          /\ localStorage' = res.store
          /\ heap' = [heap EXCEPT
               ![next].attempts = IF Truthy(heap[next].startedAt)
                                  THEN @ + 1 ELSE @,
               ![next].startedAt = now]
          /\ get' = [headers |-> headers, status |-> 200,
                     rid |-> next, total |-> res.count]
          /\ dispatches' = [dispatches EXCEPT ![next] = @ + 1]
          /\ lastAt' = (<<clientId, heap[next].queue>> :> now) @@ lastAt
          /\ UNCHANGED <<now, QUEUES, REQUESTS, files, callers, deliv, ran,
                         sent, fetcher>>

GetNext(HS) == \E headers \in HS : handleRequestNextInQueue(headers)

(***************************************************************************)
(* POST /: handleRequestQueue, POST, registerQueue.push, buildResponse.    *)
(***************************************************************************)
\* queue.push(req): the heap and the table after the push of a new request
push(R, H, queueName, key, href, t) ==
  LET req == [key |-> key, href |-> href, createdAt |-> t - StartAt,
              startedAt |-> Undefined, queue |-> queueName, handlers |-> <<>>,
              attempts |-> 0]
      H2 == Append(H, req)
  IN [heap |-> H2, table |-> RequestsSet(R, H2, key, Len(H2)), rid |-> Len(H2)]

\* buildResponse(req, reply) for caller p: the handler added to req, and the
\* response (202 for a webhook, an open stream otherwise)
buildResponse(H, rid, reply, p) ==
  IF reply # NoReply
  THEN [heap |-> [H EXCEPT ![rid].handlers = SetAdd(@, ReplyUrl(reply))],
        pc |-> "done", status |-> 202]
  ELSE [heap |-> [H EXCEPT ![rid].handlers = SetAdd(@, Resolver(p))],
        pc |-> "wait", status |-> 200]

\* PostArrive taking every body for a good one
PostArrive_AcceptsAll(p, body) ==
  /\ callers[p].pc = "idle"
  /\ p > 1 => callers[p - 1].pc # "idle"
  /\ <<"c", p>> \notin ran
  /\ callers' = [callers EXCEPT ![p] = [@ EXCEPT !.pc = "digest",
                                                 !.body = body]]
  /\ UNCHANGED <<now, QUEUES, REQUESTS, heap, localStorage, CLIENTS, files,
                 deliv, sent, get, dispatches, lastAt, fetcher>>
  /\ Mark(<<"c", p>>)

\* the request arrives; handleRequestQueue awaits request.json()
PostArrive(p, body) ==
  /\ callers[p].pc = "idle"
  /\ p > 1 => callers[p - 1].pc # "idle"
  /\ <<"c", p>> \notin ran
  /\ callers' = [callers EXCEPT ![p] =
       IF body.valid THEN [@ EXCEPT !.pc = "digest", !.body = body]
       ELSE [@ EXCEPT !.pc = "done", !.body = body, !.status = 400]]
  /\ UNCHANGED <<now, QUEUES, REQUESTS, heap, localStorage, CLIENTS, files,
                 deliv, sent, get, dispatches, lastAt, fetcher>>
  /\ Mark(<<"c", p>>)

\* after request.json(), registerQueue of an unknown host and getKey:
\* POST looks the key up in the table
PostLookup(p) ==
  /\ callers[p].pc = "digest"
  /\ <<"c", p>> \notin ran
  /\ LET url == callers[p].body.url
         Q == IF url.hostname \in DOMAIN QUEUES THEN QUEUES
              ELSE registerQueue(QUEUES, url.hostname, DEFAULT_DELAY, {})
         queue == Q[url.hostname]
         key == KeyOf(queue.name, url.pathname \o url.search)
         req == RequestsGet(REQUESTS, heap, key)
         built == buildResponse(heap, req, callers[p].body.reply, p)
     IN /\ QUEUES' = Q
        /\ IF req # 0
           THEN /\ heap' = built.heap
                /\ callers' = [callers EXCEPT ![p].pc = built.pc,
                     ![p].status = built.status, ![p].key = key,
                     ![p].rid = req]
           ELSE /\ heap' = heap
                /\ callers' = [callers EXCEPT ![p].pc = "open", ![p].key = key]
  /\ UNCHANGED <<now, REQUESTS, localStorage, CLIENTS, files, deliv, sent, get,
                 dispatches, lastAt, fetcher>>
  /\ Mark(<<"c", p>>)

\* cacheLookup taking a path that is no regular file, or cannot be opened,
\* for a missing one
cacheLookup_AnyErrorIsMiss(file, expire, t) ==
  IF file.kind # "file" THEN "miss"
  ELSE IF expire = 0 THEN "hit"
  ELSE IF file.mtime + expire > t THEN "hit"
  ELSE "miss"

\* what Deno.open and file.stat() make of the cache path and the expire:
\* "hit", "miss" (NotFound, or a stale file) or "error"
cacheLookup(file, expire, t) ==
  IF file.kind = "none" THEN "miss"
  ELSE IF file.kind # "file" THEN "error"
  ELSE IF expire = 0 THEN "hit"
  ELSE IF file.mtime + expire > t THEN "hit"
  ELSE "miss"

\* after Deno.open and file.stat(): serve the cache or enqueue
PostOpened(p) ==
  /\ callers[p].pc = "open"
  /\ <<"c", p>> \notin ran
  /\ LET me == callers[p]
         file == files[me.key]
         found == cacheLookup(file, me.body.expire, now)
         queue == QUEUES[me.body.url.hostname]
         pushed == push(REQUESTS, heap, queue.name, me.key, me.body.url, now)
         built == buildResponse(pushed.heap, pushed.rid, me.body.reply, p)
     IN IF found = "hit"
        THEN /\ callers' = [callers EXCEPT ![p].pc = "done", ![p].status = 200,
                  ![p].got = file.body, ![p].cached = TRUE]
             /\ UNCHANGED <<REQUESTS, heap, dispatches>>
        ELSE IF found = "error"
        THEN /\ callers' = [callers EXCEPT ![p].pc = "done", ![p].status = 500]
             /\ UNCHANGED <<REQUESTS, heap, dispatches>>
        ELSE /\ REQUESTS' = pushed.table
             /\ heap' = built.heap
             /\ dispatches' = Append(dispatches, 0)
             /\ callers' = [callers EXCEPT ![p].pc = built.pc,
                  ![p].status = built.status, ![p].rid = pushed.rid]
  /\ UNCHANGED <<now, QUEUES, localStorage, CLIENTS, files, deliv, sent, get,
                 lastAt, fetcher>>
  /\ Mark(<<"c", p>>)

\* StreamCancel without the removal of a request left with no handler
StreamCancel_KeepsEmpty(p) ==
  /\ callers[p].pc \in {"wait", "resolved"}
  /\ <<"c", p>> \notin ran
  /\ heap' = [heap EXCEPT ![callers[p].rid].handlers =
                SetDelete(@, Resolver(p))]
  /\ callers' = [callers EXCEPT ![p].pc = "cancelled"]
  /\ UNCHANGED <<now, QUEUES, REQUESTS, localStorage, CLIENTS, files, deliv,
                 sent, get, dispatches, lastAt, fetcher>>
  /\ Mark(<<"c", p>>)

\* the cancel callback of the stream of caller p (the caller went away)
StreamCancel(p) ==
  /\ callers[p].pc \in {"wait", "resolved"}
  /\ <<"c", p>> \notin ran
  /\ LET me == callers[p]
         left == SetDelete(heap[me.rid].handlers, Resolver(p))
     IN /\ heap' = [heap EXCEPT ![me.rid].handlers = left]
        /\ REQUESTS' = IF Len(left) = 0
                       THEN RequestsDelete(REQUESTS, heap, me.key)
                       ELSE REQUESTS
  /\ callers' = [callers EXCEPT ![p].pc = "cancelled"]
  /\ UNCHANGED <<now, QUEUES, localStorage, CLIENTS, files, deliv, sent, get,
                 dispatches, lastAt, fetcher>>
  /\ Mark(<<"c", p>>)

\* the rest of pull of one stream, once its promise is resolved
RECURSIVE pullAll(_, _, _, _)
pullAll(ps, R, H, c) ==
  IF ps = {} THEN [table |-> R, heap |-> H, callers |-> c]
  ELSE LET p == CHOOSE q \in ps : TRUE
           left == SetDelete(H[c[p].rid].handlers, Resolver(p))
           H2 == [H EXCEPT ![c[p].rid].handlers = left]
           R2 == IF Len(left) = 0 THEN RequestsDelete(R, H2, c[p].key) ELSE R
       IN pullAll(ps \ {p}, R2, H2, [c EXCEPT ![p].pc = "closed"])

\* the promise reactions queued by a delivery run, one after the other
StreamPull ==
  /\ Resolved(callers) # {}
  /\ LET done == pullAll(Resolved(callers), REQUESTS, heap, callers)
     IN /\ REQUESTS' = done.table
        /\ heap' = done.heap
        /\ callers' = done.callers
  /\ ran' = {}
  /\ UNCHANGED <<now, QUEUES, localStorage, CLIENTS, files, deliv, sent, get,
                 dispatches, lastAt, fetcher>>

(***************************************************************************)
(* POST /<key>: handleRequestResponse.                                     *)
(***************************************************************************)
\* the bytes delivery d carries: no two deliveries carry the same
BodyOf(d) == <<"bytes", d>>

\* the fetch sendReply(attempts) starts for delivery d: a POST to the webhook,
\* not answered yet (answer 0); next tells whether sendReply was called again
sendReply(to, d, rid, attempts) ==
  [to |-> to, key |-> deliv[d].key, body |-> deliv[d].body,
   status |-> deliv[d].xstatus, rid |-> rid, by |-> d, attempts |-> attempts,
   at |-> now, answer |-> 0, answeredAt |-> 0, next |-> FALSE, nth |-> 0]

\* notify going over req.handlers from the last one attached to the first
RECURSIVE notify_Backwards(_, _, _, _, _)
notify_Backwards(handlers, c, log, d, rid) ==
  IF handlers = <<>> THEN [callers |-> c, sent |-> log]
  ELSE LET handler == handlers[Len(handlers)]
           rest == SubSeq(handlers, 1, Len(handlers) - 1)
           nth == Len(heap[rid].handlers) - Len(handlers) + 1
       IN IF handler[1] = "resolve"
          THEN notify_Backwards(rest,
                 IF c[handler[2]].pc = "wait"
                 THEN [c EXCEPT ![handler[2]].pc = "resolved",
                                ![handler[2]].got = deliv[d].body,
                                ![handler[2]].nth = nth]
                 ELSE c,
                 log, d, rid)
          ELSE notify_Backwards(rest, c,
                 Append(log, [sendReply(handler[2], d, rid, 0)
                                EXCEPT !.nth = nth]),
                 d, rid)

\* the for loop over req.handlers, from the handlers left to visit on:
\* resolvers are called (a promise settles once, so only a waiting stream
\* changes), webhook POSTs are started; nth is the turn of the loop
RECURSIVE notify(_, _, _, _, _)
notify(handlers, c, log, d, rid) ==
  IF handlers = <<>> THEN [callers |-> c, sent |-> log]
  ELSE LET handler == Head(handlers)
           nth == Len(heap[rid].handlers) - Len(handlers) + 1
       IN IF handler[1] = "resolve"
          THEN notify(Tail(handlers),
                 IF c[handler[2]].pc = "wait"
                 THEN [c EXCEPT ![handler[2]].pc = "resolved",
                                ![handler[2]].got = deliv[d].body,
                                ![handler[2]].nth = nth]
                 ELSE c,
                 log, d, rid)
          ELSE notify(Tail(handlers), c,
                 Append(log, [sendReply(handler[2], d, rid, 0)
                                EXCEPT !.nth = nth]),
                 d, rid)

\* DeliverArrive with the client looked up (and recorded) before the key
DeliverArrive_ClientFirst(d, key, xstatus, body, headers) ==
  /\ deliv[d].pc = "idle"
  /\ d > 1 => deliv[d - 1].pc # "idle"
  /\ <<"d", d>> \notin ran
  /\ LET req == RequestsGet(REQUESTS, heap, key)
     IN deliv' = [deliv EXCEPT ![d] =
          IF req = 0
          THEN [@ EXCEPT !.pc = "done", !.key = key, !.xstatus = xstatus,
                         !.body = body, !.headers = headers, !.status = 404]
          ELSE [@ EXCEPT !.pc = "body", !.key = key, !.xstatus = xstatus,
                         !.body = body, !.headers = headers, !.rid = req]]
  /\ CLIENTS' = getClient(CLIENTS, clientIdOf(headers), now)
  /\ UNCHANGED <<now, QUEUES, REQUESTS, heap, localStorage, files, callers,
                 sent, get, dispatches, lastAt, fetcher>>
  /\ Mark(<<"d", d>>)

\* the request arrives: REQUESTS.get(key), then await request.arrayBuffer()
DeliverArrive(d, key, xstatus, body, headers) ==
  /\ deliv[d].pc = "idle"
  /\ d > 1 => deliv[d - 1].pc # "idle"
  /\ <<"d", d>> \notin ran
  /\ LET req == RequestsGet(REQUESTS, heap, key)
     IN deliv' = [deliv EXCEPT ![d] =
          IF req = 0
          THEN [@ EXCEPT !.pc = "done", !.key = key, !.xstatus = xstatus,
                         !.body = body, !.headers = headers, !.status = 404]
          ELSE [@ EXCEPT !.pc = "body", !.key = key, !.xstatus = xstatus,
                         !.body = body, !.headers = headers, !.rid = req]]
  /\ UNCHANGED <<now, QUEUES, REQUESTS, heap, localStorage, CLIENTS, files,
                 callers, sent, get, dispatches, lastAt, fetcher>>
  /\ Mark(<<"d", d>>)

\* the body is read: count the client, start the cache write, notify the
\* handlers, delete the key, then await the write
DeliverBody(d) ==
  /\ deliv[d].pc = "body"
  /\ <<"d", d>> \notin ran
  /\ LET me == deliv[d]
         clientId == clientIdOf(me.headers)
         known == getClient(CLIENTS, clientId, now)
         told == notify(heap[me.rid].handlers, callers, sent, d, me.rid)
     IN /\ CLIENTS' = IF clientId = "" THEN known
                      ELSE [known EXCEPT ![clientId].finished = @ + 1]
        /\ callers' = told.callers
        /\ sent' = told.sent
        /\ REQUESTS' = RequestsDelete(REQUESTS, heap, me.key)
  /\ deliv' = [deliv EXCEPT ![d].pc = "write"]
  /\ UNCHANGED <<now, QUEUES, heap, localStorage, files, get, dispatches,
                 lastAt, fetcher>>
  /\ Mark(<<"d", d>>)

\* Deno.writeFile(key, body) of a status-200 delivery completes
DeliverWritten(d) ==
  /\ deliv[d].pc = "write"
  /\ deliv[d].xstatus = 200
  /\ ~deliv[d].written
  /\ <<"d", d>> \notin ran
  /\ files' = [files EXCEPT ![deliv[d].key] =
       [kind |-> "file", body |-> deliv[d].body, mtime |-> now]]
  /\ deliv' = [deliv EXCEPT ![d].written = TRUE]
  /\ UNCHANGED <<now, QUEUES, REQUESTS, heap, localStorage, CLIENTS, callers,
                 sent, get, dispatches, lastAt, fetcher>>
  /\ Mark(<<"d", d>>)

\* Deno.writeFile fails: `await writePending` throws and the handler rejects
DeliverWriteFailed(d) ==
  /\ deliv[d].pc = "write"
  /\ deliv[d].xstatus = 200
  /\ ~deliv[d].written
  /\ <<"d", d>> \notin ran
  /\ deliv' = [deliv EXCEPT ![d].pc = "done", ![d].status = 500]
  /\ UNCHANGED <<now, QUEUES, REQUESTS, heap, localStorage, CLIENTS, files,
                 callers, sent, get, dispatches, lastAt, fetcher>>
  /\ Mark(<<"d", d>>)

\* `await writePending` returns: the delivery is acknowledged with EMPTY
DeliverAck(d) ==
  /\ deliv[d].pc = "write"
  /\ deliv[d].xstatus = 200 => deliv[d].written
  /\ <<"d", d>> \notin ran
  /\ deliv' = [deliv EXCEPT ![d].pc = "done", ![d].status = 204]
  /\ UNCHANGED <<now, QUEUES, REQUESTS, heap, localStorage, CLIENTS, files,
                 callers, sent, get, dispatches, lastAt, fetcher>>
  /\ Mark(<<"d", d>>)

\* the webhook answers POST i of the log: sendReply returns on a status other
\* than 500; on a 500 it calls itself at once when attempts is 0, and first
\* awaits a timer of attempts * 750 ms otherwise
HookAnswer(i, status) ==
  /\ i \in 1..Len(sent)
  /\ sent[i].answer = 0
  /\ Resolved(callers) = {}
  /\ LET me == [sent[i] EXCEPT !.answer = status, !.answeredAt = now]
     IN sent' = IF status = 500 /\ ~Truthy(me.attempts)
                THEN Append([sent EXCEPT ![i] = [me EXCEPT !.next = TRUE]],
                            sendReply(me.to, me.by, me.rid, me.attempts + 1))
                ELSE [sent EXCEPT ![i] = me]
  /\ UNCHANGED <<now, QUEUES, REQUESTS, heap, localStorage, CLIENTS, files,
                 callers, deliv, ran, get, dispatches, lastAt, fetcher>>

\* the timer of a retry fires: sendReply(attempts + 1)
HookWake(i) ==
  /\ i \in 1..Len(sent)
  /\ sent[i].answer = 500
  /\ ~sent[i].next
  /\ now >= sent[i].answeredAt + sent[i].attempts * 750
  /\ Resolved(callers) = {}
  /\ sent' = Append([sent EXCEPT ![i].next = TRUE],
                    sendReply(sent[i].to, sent[i].by, sent[i].rid,
                              sent[i].attempts + 1))
  /\ UNCHANGED <<now, QUEUES, REQUESTS, heap, localStorage, CLIENTS, files,
                 callers, deliv, ran, get, dispatches, lastAt, fetcher>>

(***************************************************************************)
(* Specification.                                                          *)
(***************************************************************************)
\* the steps of the requests in flight, whatever their inputs were
Lookup == \E p \in Callers : PostLookup(p)
Opened == \E p \in Callers : PostOpened(p)
Cancel == \E p \in Callers : StreamCancel(p)
BodyRead == \E d \in Deliveries : DeliverBody(d)
Written == \E d \in Deliveries : DeliverWritten(d)
WriteFailed == \E d \in Deliveries : DeliverWriteFailed(d)
Ack == \E d \in Deliveries : DeliverAck(d)

(***************************************************************************)
(* Spec: the request table.  Enqueues of one URL by stream and webhook     *)
(* callers, status-200 deliveries of its key by client A, GET / by A.      *)
(***************************************************************************)
HeaderA == [n \in {"x-client-id"} |-> "A"]
HeaderB == [n \in {"x-client-id"} |-> "B"]
TableBodies ==
  [valid : {TRUE}, url : {UrlA}, expire : {0}, reply : Webhooks \cup {NoReply}]

Init == InitWith({NoFiles}, MaxCallers, MaxDeliveries)
Poll == GetNext({HeaderA})
Enqueue == \E p \in Callers, body \in TableBodies : PostArrive(p, body)
Deliver ==
  \E d \in Deliveries : DeliverArrive(d, KeyA, 200, BodyOf(d), HeaderA)
Next ==
  \/ Tick(StartAt + MaxTicks * Step)
  \/ Poll
  \/ Enqueue
  \/ Deliver
  \/ Lookup
  \/ Opened
  \/ Cancel
  \/ StreamPull
  \/ BodyRead
  \/ Written
  \/ WriteFailed
  \/ Ack
Spec == Init /\ [][Next]_vars

\* the PendingRequest ids the table holds
InTable(R) == Range(R)

(***************************************************************************)
(* Claims on the request table (Spec).                                     *)
(***************************************************************************)

\* C1 (as claimed): coalescing.  Two stream callers of the same key that
\* both wait for the delivery are handlers of one and the same
\* PendingRequest, and that PendingRequest is the entry of the key in the
\* request table.
C1_Coalescing ==
  \A p, q \in Callers :
    (/\ p # q
     /\ callers[p].pc = "wait"
     /\ callers[q].pc = "wait"
     /\ callers[p].key = callers[q].key)
    => /\ callers[p].rid = callers[q].rid
       /\ RequestsGet(REQUESTS, heap, callers[p].key) = callers[p].rid
       /\ {Resolver(p), Resolver(q)} \subseteq
            Range(heap[callers[p].rid].handlers)

\* C5 (as claimed): delivery notifies each waiter exactly once.  No webhook
\* URL is POSTed twice (retries aside) for one PendingRequest, every stream that was closed
\* got the body of a delivery of its PendingRequest, and a PendingRequest
\* whose delivery was acknowledged is no longer in the request table.
C5_NotifiedOnce ==
  /\ \A i, j \in 1..Len(sent) :
       (/\ sent[i].rid = sent[j].rid /\ sent[i].to = sent[j].to
        /\ sent[i].attempts = 0 /\ sent[j].attempts = 0) => i = j
  /\ \A p \in Callers :
       callers[p].pc = "closed" =>
         \E d \in Deliveries :
           deliv[d].rid = callers[p].rid /\ deliv[d].body = callers[p].got
  /\ \A d \in Deliveries :
       (deliv[d].pc = "done" /\ deliv[d].status = 204) =>
         deliv[d].rid \notin InTable(REQUESTS)

\* C6 (as claimed): the cache write gate.  When a status-200 delivery is
\* acknowledged with 204, the cache file of its key holds the bytes of that
\* delivery.
C6_CacheWriteGate ==
  [][\A d \in Deliveries :
       (deliv[d].pc = "write" /\ deliv'[d].pc = "done" /\ deliv'[d].status = 204
        /\ deliv[d].xstatus = 200)
       => (files'[deliv[d].key].kind = "file"
           /\ files'[deliv[d].key].body = deliv[d].body)]_vars

\* C10 (as claimed): late delivery after the last cancel.  A delivery whose
\* body is read after every handler of its PendingRequest has cancelled (and
\* before the key is enqueued again) is answered 404 and counts for no client.
C10_LateDelivery ==
  [][\A d \in Deliveries :
       (/\ deliv[d].pc = "body"
        /\ deliv'[d].pc # "body"
        /\ heap[deliv[d].rid].handlers = <<>>
        /\ \E p \in Callers :
             callers[p].rid = deliv[d].rid /\ callers[p].pc = "cancelled"
        /\ \A p \in Callers :
             callers[p].rid = deliv[d].rid => callers[p].pc = "cancelled"
        /\ RequestsGet(REQUESTS, heap, deliv[d].key) = 0)
       => (deliv'[d].status = 404 /\ CLIENTS' = CLIENTS)]_vars

\* C7: a delivery for a key that is not in the request table is answered 404
\* and changes nothing: no cache file, no handler notified, no request
\* created or removed, no client record created, no finished count
\* incremented; the handler has returned, so nothing follows later either.
C7_UnknownKeyDropped ==
  [][\A d \in Deliveries :
       /\ (/\ deliv[d].pc = "idle"
           /\ deliv'[d].pc # "idle"
           /\ RequestsGet(REQUESTS, heap, deliv'[d].key) = 0)
          => (/\ deliv'[d].pc = "done"
              /\ deliv'[d].status = 404
              /\ UNCHANGED <<files, REQUESTS, heap, CLIENTS, callers, sent,
                             localStorage, QUEUES, fetcher>>)
       /\ deliv[d].pc = "done" => deliv'[d] = deliv[d]]_vars

\* a status-200 delivery of a key not in the table was answered 404, and its
\* client has no record and the key no cache file
C7_Witness ==
  \E d \in Deliveries :
    /\ deliv[d].pc = "done"
    /\ deliv[d].status = 404
    /\ deliv[d].xstatus = 200
    /\ clientIdOf(deliv[d].headers) \notin DOMAIN CLIENTS
    /\ files[deliv[d].key].kind = "none"

\* C9: every PendingRequest in the request table has at least one handler;
\* the cancel of a waiting stream removes its handler, removes the
\* PendingRequest from the table if that was the last handler, and otherwise
\* keeps it in the table with createdAt, startedAt and attempts unchanged.
C9_NoEmptyPending ==
  [][/\ \A i \in 1..Len(REQUESTS') : heap'[REQUESTS'[i]].handlers # <<>>
     /\ \A p \in Callers :
          (callers[p].pc = "wait" /\ callers'[p].pc = "cancelled") =>
            LET rid == callers[p].rid
            IN /\ Resolver(p) \notin Range(heap'[rid].handlers)
               /\ heap'[rid].handlers = <<>> => rid \notin InTable(REQUESTS')
               /\ (heap'[rid].handlers # <<>> /\ rid \in InTable(REQUESTS)) =>
                    /\ rid \in InTable(REQUESTS')
                    /\ heap'[rid].createdAt = heap[rid].createdAt
                    /\ heap'[rid].startedAt = heap[rid].startedAt
                    /\ heap'[rid].attempts = heap[rid].attempts]_vars

\* a stream cancelled and left its PendingRequest, dispatched before, in the
\* table with another handler
C9_Witness ==
  \E p \in Callers :
    /\ callers[p].pc = "cancelled"
    /\ callers[p].rid \in InTable(REQUESTS)
    /\ heap[callers[p].rid].handlers # <<>>
    /\ heap[callers[p].rid].startedAt # Undefined

(***************************************************************************)
(* SpecCache: POST / against a cache directory that may hold a file of     *)
(* the key, with callers of different expire.                              *)
(***************************************************************************)
CacheCallers == 2
CacheTicks == 2

\* expire: none, one the old file fails from the start, one it passes until
\* the clock has moved
CacheBodies ==
  [valid : {TRUE}, url : {UrlA}, expire : {0, Step, 2 * Step},
   reply : Webhooks \cup {NoReply}]

InitCache == InitWith({NoFiles, OldFile(KeyA)}, CacheCallers, 0)
ClockCache == Tick(StartAt + CacheTicks * Step)
EnqueueCache == \E p \in Callers, body \in CacheBodies : PostArrive(p, body)
NextCache ==
  \/ ClockCache
  \/ EnqueueCache
  \/ Lookup
  \/ Opened
  \/ Cancel
SpecCache == InitCache /\ [][NextCache]_vars

\* C8: when POST / looks its key up and the cache file of the key exists and
\* passes the caller's expire, the enqueue creates no PendingRequest and
\* attaches no handler to one, also when the key is in the request table; the
\* caller is then answered the file's body with x-from-cache.
C8_CacheBeforeTable ==
  [][\A p \in Callers :
       (/\ callers[p].pc = "digest"
        /\ callers'[p].pc # "digest"
        /\ cacheLookup(files[KeyOfUrl(callers[p].body.url)],
                       callers[p].body.expire, now) = "hit")
       => /\ heap' = heap
          /\ REQUESTS' = REQUESTS
          /\ callers'[p].pc = "open"]_vars

(***************************************************************************)
(* SpecSched: GET / by two clients (and by a request with no client        *)
(* header) over requests of three URLs, two of one seeded queue and one    *)
(* whose hostname is empty, for longer than TIMEOUT.                       *)
(***************************************************************************)
SchedCallers == 2
SchedTicks == 2

NoHeaders == << >>
SchedClients == {HeaderA, HeaderB}
SchedBodies == [valid : {TRUE}, url : Urls, expire : {0}, reply : {NoReply}]

InitSched == InitWith({NoFiles}, SchedCallers, 0)
ClockSched == Tick(StartAt + SchedTicks * Step)
PollSched == GetNext(SchedClients \cup {NoHeaders})
EnqueueSched == \E p \in Callers, body \in SchedBodies : PostArrive(p, body)
NextSched ==
  \/ ClockSched
  \/ PollSched
  \/ EnqueueSched
  \/ Lookup
  \/ Opened
  \/ Cancel
SpecSched == InitSched /\ [][NextSched]_vars

\* the unlock time client c holds for queue q in the store S, read at time t
\* (Undefined if none)
CooldownOf(S, c, q, t) ==
  TimersGet(decodeTimers(IF c \in DOMAIN S THEN S[c] ELSE <<>>, t), q)
\* request r was never dispatched, or was dispatched TIMEOUT or longer ago
Free(r) ==
  heap[r].startedAt = Undefined \/ now - heap[r].startedAt >= TIMEOUT
\* the requests of the table client c can be given now
Eligible(c) ==
  {r \in InTable(REQUESTS) :
     Free(r) /\ CooldownOf(localStorage, c, heap[r].queue, now) = Undefined}
\* the place of request r in the table
Place(r) == CHOOSE i \in 1..Len(REQUESTS) : REQUESTS[i] = r
\* client c was given a request of queue q less than the queue's delay ago
InWindow(c, q) ==
  /\ <<c, q>> \in DOMAIN lastAt
  /\ now < lastAt[<<c, q>>] + QUEUES[q].delay

\* C2: a GET / that gives client c a request of queue q stores a cooldown of
\* at least now + q.delay for (c, q) and is not within q.delay of an earlier
\* dispatch of q to c; a GET / by c while every free request of the table is
\* of a queue c was given less than its delay ago returns 204.
C2_Cooldown ==
  [][\A h \in SchedClients :
       handleRequestNextInQueue(h) =>
         LET c == clientIdOf(h)
         IN /\ get'.status = 200 =>
                 LET q == heap[get'.rid].queue
                 IN /\ CooldownOf(localStorage', c, q, now)
                         >= now + QUEUES[q].delay
                    /\ ~InWindow(c, q)
            /\ (\A r \in InTable(REQUESTS) :
                  Free(r) => InWindow(c, heap[r].queue))
               => get'.status = 204]_vars

\* C3 as stated: GET / returns r iff r is eligible and no eligible request
\* has a smaller created_at; it returns 204 with no state change iff no
\* request is eligible; total is the number of eligible requests; a request
\* dispatched less than TIMEOUT ago is not offered.
C3_Selection ==
  [][\A h \in SchedClients :
       handleRequestNextInQueue(h) =>
         LET c == clientIdOf(h)
             E == Eligible(c)
         IN /\ \A r \in InTable(REQUESTS) :
                 (get'.status = 200 /\ get'.rid = r)
                 <=> (/\ r \in E
                      /\ \A o \in E : heap[o].createdAt >= heap[r].createdAt)
            /\ get'.status = 204 <=> E = {}
            /\ get'.status = 204 =>
                 UNCHANGED <<QUEUES, REQUESTS, heap, localStorage, CLIENTS,
                             files>>
            /\ get'.status = 200 =>
                 /\ get'.total = Cardinality(E)
                 /\ Free(get'.rid)]_vars

\* C3, amended: GET / returns 200 iff some request is eligible and 204
\* otherwise; the request returned is eligible, no eligible request has a
\* smaller created_at, and of the eligible requests of that created_at it is
\* the last in table order; total is the number of eligible requests; a
\* request dispatched less than TIMEOUT ago is not offered; a 204 leaves
\* queues, table, requests, cooldown store and cache alone and changes of the
\* client records only the caller's, created if new, with active_at set to
\* the current time.
C3_SelectionAmended ==
  [][\A h \in SchedClients :
       handleRequestNextInQueue(h) =>
         LET c == clientIdOf(h)
             E == Eligible(c)
         IN /\ get'.status = 200 <=> E # {}
            /\ get'.status = 204 <=> E = {}
            /\ get'.status = 200 =>
                 LET r == get'.rid
                 IN /\ r \in E
                    /\ \A o \in E :
                         \/ heap[o].createdAt > heap[r].createdAt
                         \/ /\ heap[o].createdAt = heap[r].createdAt
                            /\ Place(o) <= Place(r)
                    /\ get'.total = Cardinality(E)
                    /\ Free(r)
            /\ get'.status = 204 =>
                 /\ UNCHANGED <<QUEUES, REQUESTS, heap, localStorage, files>>
                 /\ DOMAIN CLIENTS' = DOMAIN CLIENTS \cup {c}
                 /\ \A k \in DOMAIN CLIENTS : k # c => CLIENTS'[k] = CLIENTS[k]
                 /\ CLIENTS'[c].activeAt = now
                 /\ CLIENTS'[c].started =
                      IF c \in DOMAIN CLIENTS THEN CLIENTS[c].started ELSE 0
                 /\ CLIENTS'[c].finished =
                      IF c \in DOMAIN CLIENTS THEN CLIENTS[c].finished
                      ELSE 0]_vars

\* client B was just given, of two eligible requests created at the same
\* time, the later one in the table, with total 2, and client A, new to the
\* dispatcher, was recorded by a GET / before
C3_Witness ==
  /\ get.status = 200
  /\ get.total = 2
  /\ clientIdOf(get.headers) = "B"
  /\ "A" \in DOMAIN CLIENTS
  /\ \E o \in InTable(REQUESTS) :
       /\ o # get.rid
       /\ heap[o].createdAt = heap[get.rid].createdAt
       /\ heap[o].startedAt = Undefined
       /\ Place(o) < Place(get.rid)

\* the attempts of every PendingRequest against the dispatches counted for it
AttemptsCount(H, D) ==
  \A r \in DOMAIN H : H[r].attempts = IF D[r] = 0 THEN 0 ELSE D[r] - 1
\* what a GET / that gave client c a request has done to it and to c
Dispatched(c) ==
  /\ heap'[get'.rid].startedAt = now
  /\ dispatches'[get'.rid] = dispatches[get'.rid] + 1
  /\ c \in DOMAIN CLIENTS => CLIENTS'[c].started = CLIENTS[c].started + 1
  /\ c \notin DOMAIN CLIENTS => CLIENTS'[c].started = 1
\* request r was dispatched, has timed out, and client c holds no cooldown
\* for its queue
TimedOutFor(c, r) ==
  /\ heap[r].startedAt # Undefined
  /\ now - heap[r].startedAt >= TIMEOUT
  /\ CooldownOf(localStorage, c, heap[r].queue, now) = Undefined

\* C4 as stated: a request dispatched TIMEOUT or longer ago and still in the
\* table is handed to the next polling client without cooldown on its queue;
\* attempts is the number of dispatches minus one (0 for at most one); a
\* dispatch sets started_at to the current time and adds one to the started
\* count of the client.
C4_Retry ==
  [][\A h \in SchedClients :
       handleRequestNextInQueue(h) =>
         LET c == clientIdOf(h)
         IN /\ \A r \in InTable(REQUESTS) :
                 TimedOutFor(c, r) => (get'.status = 200 /\ get'.rid = r)
            /\ AttemptsCount(heap', dispatches')
            /\ get'.status = 200 => Dispatched(c)]_vars

\* C4, amended: a request dispatched TIMEOUT or longer ago and still in the
\* table is eligible again: the next polling client without cooldown on its
\* queue is handed it, or another eligible request that is not younger;
\* attempts is the number of dispatches minus one (0 for at most one); a
\* dispatch sets started_at to the current time and adds one to the started
\* count of the client.
C4_RetryAmended ==
  [][\A h \in SchedClients :
       handleRequestNextInQueue(h) =>
         LET c == clientIdOf(h)
         IN /\ \A r \in InTable(REQUESTS) :
                 TimedOutFor(c, r) =>
                   /\ get'.status = 200
                   /\ \/ get'.rid = r
                      \/ /\ get'.rid \in Eligible(c)
                         /\ heap[get'.rid].createdAt <= heap[r].createdAt
            /\ AttemptsCount(heap', dispatches')
            /\ get'.status = 200 => Dispatched(c)]_vars

\* client B was just given a request that client A was given TIMEOUT or
\* longer before: its attempts is 1 and it is B's first
C4_Witness ==
  /\ get.status = 200
  /\ clientIdOf(get.headers) = "B"
  /\ heap[get.rid].attempts = 1
  /\ heap[get.rid].startedAt = now
  /\ dispatches[get.rid] = 2
  /\ CLIENTS["B"].started = 1
  /\ <<"A", heap[get.rid].queue>> \in DOMAIN lastAt
  /\ now - lastAt[<<"A", heap[get.rid].queue>>] >= TIMEOUT

(***************************************************************************)
(* SpecRestart: the process stops and starts again; localStorage is kept,  *)
(* and cleanupLocalStorageTimers runs at start and on its interval.        *)
(***************************************************************************)
RestartCallers == 2
RestartTicks == 1

\* localStorage after cleanupLocalStorageTimers at time t
cleanupLocalStorageTimers(S, t) ==
  LET after(c) == encodeTimers(decodeTimers(S[c], t))
  IN [c \in {k \in DOMAIN S : after(k) # <<>>} |-> after(c)]

\* the interval callback
Cleanup ==
  /\ Resolved(callers) = {}
  /\ localStorage' = cleanupLocalStorageTimers(localStorage, now)
  /\ UNCHANGED <<now, QUEUES, REQUESTS, heap, CLIENTS, files, callers, deliv,
                 ran, sent, get, dispatches, lastAt, fetcher>>

\* the process ends and the module is loaded again: QUEUES, REQUESTS and
\* CLIENTS are new, the requests in flight are lost with their connections,
\* localStorage and the cache directory are those of the run before
Restart ==
  /\ QUEUES' = SeedQueues
  /\ REQUESTS' = <<>>
  /\ CLIENTS' = << >>
  /\ callers' = [p \in Callers |->
                   IF callers[p].pc \in {"idle", "done", "closed", "cancelled"}
                   THEN callers[p] ELSE [callers[p] EXCEPT !.pc = "lost"]]
  /\ deliv' = [d \in Deliveries |->
                 IF deliv[d].pc \in {"idle", "done"}
                 THEN deliv[d] ELSE [deliv[d] EXCEPT !.pc = "lost"]]
  /\ ran' = {}
  /\ localStorage' = cleanupLocalStorageTimers(localStorage, now)
  /\ UNCHANGED <<now, heap, files, sent, get, dispatches, lastAt, fetcher>>

RestartBodies ==
  [valid : {TRUE}, url : {UrlA, UrlC}, expire : {0}, reply : {NoReply}]

InitRestart == InitWith({NoFiles}, RestartCallers, 0)
ClockRestart == Tick(StartAt + RestartTicks * Step)
PollRestart == GetNext({HeaderA})
EnqueueRestart ==
  \E p \in Callers, body \in RestartBodies : PostArrive(p, body)
NextRestart ==
  \/ ClockRestart
  \/ PollRestart
  \/ EnqueueRestart
  \/ Lookup
  \/ Opened
  \/ Cancel
  \/ Cleanup
  \/ Restart
SpecRestart == InitRestart /\ [][NextRestart]_vars

\* C11: the first GET / of a client after a restart (the client has no
\* record, and was given a request of queue q in the run before) does not
\* give it a request of q before the delay of q has passed since.
C11_CooldownSurvivesRestart ==
  [][handleRequestNextInQueue(HeaderA) =>
       LET c == clientIdOf(HeaderA)
       IN (c \notin DOMAIN CLIENTS /\ get'.status = 200)
          => ~InWindow(c, heap[get'.rid].queue)]_vars

(***************************************************************************)
(* SpecHook: deliveries to webhooks that answer 200 or 500.                *)
(***************************************************************************)
HookCallers == 2
HookDeliveries == 1
HookTicks == 2
\* a webhook answers 500 to at most this many POSTs of one delivery
HookFailures == 2

InitHook == InitWith({NoFiles}, HookCallers, HookDeliveries)
ClockHook == Tick(StartAt + HookTicks * Step)
Answer ==
  \E i \in 1..Len(sent), status \in {200, 500} :
    /\ status = 500 => sent[i].attempts < HookFailures
    /\ HookAnswer(i, status)
Wake == \E i \in 1..Len(sent) : HookWake(i)
NextHook ==
  \/ ClockHook
  \/ Enqueue
  \/ Deliver
  \/ Lookup
  \/ Opened
  \/ Cancel
  \/ StreamPull
  \/ BodyRead
  \/ Written
  \/ WriteFailed
  \/ Ack
  \/ Answer
  \/ Wake
SpecHook == InitHook /\ [][NextHook]_vars

\* the POST whose 500 made sendReply start POST j of the log
Before(j) ==
  CHOOSE i \in 1..Len(sent) :
    /\ sent[i].by = sent[j].by
    /\ sent[i].to = sent[j].to
    /\ sent[i].attempts = sent[j].attempts - 1

\* C12: a webhook POST is repeated only after a 500, and the k-th retry is
\* started k * 750 ms or more after that 500 (the first retry 750 ms after
\* the first answer, not 0 ms); the step of the delivery that starts the
\* POSTs removes the request from the table with none of them answered.
C12_WebhookRetry ==
  /\ \A j \in 1..Len(sent) :
       sent[j].attempts > 0 =>
         /\ sent[Before(j)].answer = 500
         /\ sent[j].at >= sent[Before(j)].answeredAt + sent[j].attempts * 750
  /\ \A i \in 1..Len(sent) : sent[i].next => sent[i].answer = 500
  /\ \A d \in Deliveries :
       deliv[d].pc \in {"write", "done"} /\ deliv[d].status # 404 =>
         RequestsGet(REQUESTS, heap, deliv[d].key) # deliv[d].rid

(***************************************************************************)
(* SpecHttp: requests of any method and path through httpHandler, with     *)
(* every combination of the client headers, and POST / with bad bodies.    *)
(***************************************************************************)
HttpCallers == 2

\* the handler httpHandler gives a request of this method and path to
httpHandler(method, pathname) ==
  IF method = "POST"
  THEN IF Len(pathname) > 1 THEN "handleRequestResponse"
       ELSE "handleRequestQueue"
  ELSE IF method = "GET"
  THEN IF pathname \in {"/status", "/status/"} THEN "handleGetStatus"
       ELSE "handleRequestNextInQueue"
  ELSE "NOT_FOUND"

\* GET /status: the answer is built from the state, which it leaves alone
handleGetStatus(headers) ==
  /\ get' = [headers |-> headers, status |-> 200, rid |-> 0, total |-> 0]
  /\ UNCHANGED <<now, QUEUES, REQUESTS, heap, localStorage, CLIENTS, files,
                 callers, deliv, ran, sent, dispatches, lastAt, fetcher>>

\* the NOT_FOUND response
NotFound(headers) ==
  /\ get' = [headers |-> headers, status |-> 404, rid |-> 0, total |-> 0]
  /\ UNCHANGED <<now, QUEUES, REQUESTS, heap, localStorage, CLIENTS, files,
                 callers, deliv, ran, sent, dispatches, lastAt, fetcher>>

\* a request with no body
HttpRequest(method, pathname, headers) ==
  LET handler == httpHandler(method, pathname)
  IN /\ handler \in {"handleRequestNextInQueue", "handleGetStatus", "NOT_FOUND"}
     /\ IF handler = "handleRequestNextInQueue"
        THEN handleRequestNextInQueue(headers)
        ELSE IF handler = "handleGetStatus" THEN handleGetStatus(headers)
        ELSE NotFound(headers)

\* the headers a request may carry about its client (a proxy writes
\* x-forwarded-for), and every combination of them
ClientHeaders ==
  [n \in {"x-client-id", "true-client-ip", "cf-connecting-ip",
          "x-forwarded-for"} |->
     CASE n = "x-client-id" -> "A"
       [] n = "true-client-ip" -> "T"
       [] n = "cf-connecting-ip" -> "F"
       [] n = "x-forwarded-for" -> "X"]
HttpHeaders ==
  {[n \in S |-> ClientHeaders[n]] : S \in SUBSET DOMAIN ClientHeaders}
HttpPaths == {"/", "/foo", "/status"}

\* a body with a webhook and a url that new URL() throws on
BadUrlBody == [valid |-> FALSE, url |-> NoUrl, expire |-> 0, reply |-> "hook"]
HttpBodies ==
  [valid : {TRUE}, url : {UrlA}, expire : {0}, reply : {NoReply}]
    \cup {BadBody, BadUrlBody}

InitHttp == InitWith({NoFiles}, HttpCallers, 0)
HttpGet ==
  \E pathname \in HttpPaths, headers \in HttpHeaders :
    HttpRequest("GET", pathname, headers)
HttpMethods == {"PUT", "DELETE"}
HttpOther ==
  \E method \in HttpMethods, pathname \in HttpPaths,
     headers \in {HeaderA, NoHeaders} :
    HttpRequest(method, pathname, headers)
HttpPost ==
  /\ httpHandler("POST", "/") = "handleRequestQueue"
  /\ \E p \in Callers, body \in HttpBodies : PostArrive(p, body)
NextHttp ==
  \/ HttpGet
  \/ HttpOther
  \/ HttpPost
  \/ Lookup
  \/ Opened
  \/ Cancel
SpecHttp == InitHttp /\ [][NextHttp]_vars

\* the first non-empty of the four client headers, "" if there is none
FirstClientHeader(headers) ==
  LET a == HeadersGet(headers, "x-client-id")
      b == HeadersGet(headers, "true-client-ip")
      c == HeadersGet(headers, "cf-connecting-ip")
      d == HeadersGet(headers, "x-forwarded-for")
  IN IF a # "" THEN a ELSE IF b # "" THEN b ELSE IF c # "" THEN c ELSE d

\* C13: GET / identifies the client by the first non-empty of x-client-id,
\* true-client-ip, cf-connecting-ip and x-forwarded-for: it answers 400 only
\* when all four are missing, and otherwise records that client and, when a
\* request is eligible for it, gives it the request, counting the start and
\* storing the cooldown under that id.
C13_ClientId ==
  [][\A h \in HttpHeaders :
       HttpRequest("GET", "/", h) =>
         LET id == FirstClientHeader(h)
         IN /\ get'.status = 400 <=> id = ""
            /\ id # "" =>
                 /\ id \in DOMAIN CLIENTS'
                 /\ CLIENTS'[id].activeAt = now
                 /\ Eligible(id) # {} =>
                      /\ get'.status = 200
                      /\ CLIENTS'[id].started =
                           1 + (IF id \in DOMAIN CLIENTS
                                THEN CLIENTS[id].started ELSE 0)
                      /\ CooldownOf(localStorage', id,
                                    heap[get'.rid].queue, now) # Undefined]_vars

\* the steps that leave the table, the requests, the clients and the
\* cooldowns alone
NoEffect == UNCHANGED <<QUEUES, REQUESTS, heap, CLIENTS, localStorage>>

\* C14: only GET / dispatches; a GET on another path than / and /status, and
\* a request of a method other than GET and POST, is answered 404 and has no
\* effect on table, requests, clients or cooldowns; GET /status has none
\* either.
C14_Routing ==
  [][\A h \in HttpHeaders :
       /\ \A pathname \in HttpPaths \ {"/", "/status"} :
            HttpRequest("GET", pathname, h) => (get'.status = 404 /\ NoEffect)
       /\ \A method \in HttpMethods, pathname \in HttpPaths :
            HttpRequest(method, pathname, h) =>
              (get'.status = 404 /\ NoEffect)
       /\ HttpRequest("GET", "/status", h) => NoEffect]_vars

\* C15: GET / with none of the client headers is answered 400 and changes
\* nothing (no started_at, attempts, cooldown or client record); POST / with
\* a body that is not JSON or holds no url that parses is answered 400,
\* creates no PendingRequest and attaches no handler, and is over.
C15_BadInput ==
  [][/\ HttpRequest("GET", "/", NoHeaders) =>
          /\ get'.status = 400
          /\ NoEffect
          /\ UNCHANGED <<files, callers, deliv, sent, dispatches, lastAt>>
     /\ \A p \in Callers :
          /\ \A body \in {BadBody, BadUrlBody} :
               PostArrive(p, body) =>
                 /\ callers'[p].pc = "done"
                 /\ callers'[p].status = 400
                 /\ NoEffect
                 /\ UNCHANGED <<files, sent, dispatches>>
          /\ callers[p].status = 400 => callers'[p] = callers[p]]_vars

\* a GET / without client header was answered 400 while a request waited to
\* be given, after a POST / with a bad body was answered 400
C15_Witness ==
  /\ get.status = 400
  /\ get.headers = NoHeaders
  /\ CLIENTS = << >>
  /\ \E r \in InTable(REQUESTS) : heap[r].startedAt = Undefined
  /\ \E p \in Callers :
       callers[p].status = 400 /\ callers[p].body = BadUrlBody

\* C16: when POST / has opened an existing cache file, it treats it as a miss
\* exactly when the caller gave an expire and now > mtime + expire; otherwise
\* (no expire, or now <= mtime + expire) it answers the file's body from the
\* cache.
C16_FreshnessBoundary ==
  [][\A p \in Callers :
       (/\ callers[p].pc = "open"
        /\ callers'[p].pc # "open"
        /\ files[callers[p].key].kind = "file")
       => LET file == files[callers[p].key]
              expire == callers[p].body.expire
              miss == expire # 0 /\ now > file.mtime + expire
          IN ~miss <=> (/\ callers'[p].cached
                        /\ callers'[p].status = 200
                        /\ callers'[p].got = file.body)]_vars

\* delivery d has started Deno.writeFile and the write has not ended
Writing(d) ==
  deliv[d].pc = "write" /\ deliv[d].xstatus = 200 /\ ~deliv[d].written

\* C17: at most one write of the cache file of a key is in progress at any
\* instant, and of two deliveries of one PendingRequest only the first gets
\* past the lookup: the other is answered 404 and writes nothing.
C17_OneWriter ==
  \A d, e \in Deliveries :
    d # e =>
      /\ ~(Writing(d) /\ Writing(e) /\ deliv[d].key = deliv[e].key)
      /\ ~(deliv[d].rid # 0 /\ deliv[d].rid = deliv[e].rid)

\* C18: when the cache write of a status-200 delivery fails, the delivery is
\* still acknowledged 204, every webhook of the PendingRequest was POSTed its
\* body and no stream of it is left waiting, and the PendingRequest is not in
\* the table.
C18_BestEffortWrite ==
  [][\A d \in Deliveries :
       (Writing(d) /\ deliv'[d].pc = "done") =>
         /\ deliv'[d].status = 204
         /\ deliv[d].rid \notin InTable(REQUESTS')
         /\ \A i \in 1..Len(heap[deliv[d].rid].handlers) :
              LET handler == heap[deliv[d].rid].handlers[i]
              IN IF handler[1] = "resolve"
                 THEN callers'[handler[2]].pc # "wait"
                 ELSE \E k \in 1..Len(sent') :
                        /\ sent'[k].by = d
                        /\ sent'[k].to = handler[2]
                        /\ sent'[k].body = deliv[d].body]_vars

(***************************************************************************)
(* SpecOrder: three callers of one URL, streams and two webhooks, and one  *)
(* delivery.                                                               *)
(***************************************************************************)
OrderCallers == 3
OrderDeliveries == 1

OrderBodies ==
  [valid : {TRUE}, url : {UrlA}, expire : {0},
   reply : {"hook", "hook2", NoReply}]

InitOrder == InitWith({NoFiles}, OrderCallers, OrderDeliveries)
EnqueueOrder == \E p \in Callers, body \in OrderBodies : PostArrive(p, body)
NextOrder ==
  \/ EnqueueOrder
  \/ Deliver
  \/ Lookup
  \/ Opened
  \/ Cancel
  \/ StreamPull
  \/ BodyRead
  \/ Written
  \/ WriteFailed
  \/ Ack
SpecOrder == InitOrder /\ [][NextOrder]_vars

\* the place of handler x in the sequence of handlers hs
PlaceIn(hs, x) == CHOOSE i \in 1..Len(hs) : hs[i] = x

\* the turn of the handler loop of delivery d in which handler x was
\* notified, in the state after the loop
TurnOf(d, x) ==
  IF x[1] = "resolve" THEN callers'[x[2]].nth
  ELSE LET k == CHOOSE i \in 1..Len(sent') :
                  /\ i > Len(sent)
                  /\ sent'[i].to = x[2]
       IN sent'[k].nth

\* C19: a handler attached to a PendingRequest comes after those attached
\* before it, whatever is removed in between, and a delivery notifies the
\* handlers in that order: of two handlers the one attached first has its
\* resolver called, or its webhook POST started, first, and the POSTs are
\* started in that order.
C19_NotificationOrder ==
  [][/\ \A rid \in DOMAIN heap :
          LET old == heap[rid].handlers
              new == heap'[rid].handlers
          IN \A x, y \in Range(new) :
               /\ (x \in Range(old) /\ y \notin Range(old)) =>
                    PlaceIn(new, x) < PlaceIn(new, y)
               /\ (x \in Range(old) /\ y \in Range(old)) =>
                    (PlaceIn(old, x) < PlaceIn(old, y)
                       <=> PlaceIn(new, x) < PlaceIn(new, y))
     /\ \A d \in Deliveries :
          (deliv[d].pc = "body" /\ deliv'[d].pc = "write") =>
            LET hs == heap[deliv[d].rid].handlers
                told == {x \in Range(hs) :
                           x[1] = "resolve" => callers[x[2]].pc = "wait"}
            IN /\ \A x, y \in told :
                    PlaceIn(hs, x) < PlaceIn(hs, y) =>
                      TurnOf(d, x) < TurnOf(d, y)
               /\ \A i, j \in (Len(sent) + 1)..Len(sent') :
                    i < j => sent'[i].nth < sent'[j].nth]_vars

\* a delivery has notified, in this order, a stream, a webhook and a second
\* webhook attached in this order
C19_Witness ==
  \E d \in Deliveries :
    /\ deliv[d].pc = "write"
    /\ Len(sent) = 2
    /\ sent[1].to = "hook" /\ sent[1].nth = 2 /\ sent[1].by = d
    /\ sent[2].to = "hook2" /\ sent[2].nth = 3 /\ sent[2].by = d
    /\ callers[1].nth = 1
    /\ callers[2].body.reply = "hook"
    /\ callers[3].body.reply = "hook2"

(***************************************************************************)
(* SpecFiles: POST / against a cache path that is missing, a file, a       *)
(* directory, or a path Deno.open is denied.                               *)
(***************************************************************************)
FilesCallers == 2

\* the path of key k is a directory
DirAt(k) == [NoFiles EXCEPT ![k] = [kind |-> "dir", body |-> "", mtime |-> 0]]
\* Deno.open of the path of key k fails with PermissionDenied
DeniedAt(k) ==
  [NoFiles EXCEPT ![k] = [kind |-> "denied", body |-> "", mtime |-> 0]]

FilesBodies ==
  [valid : {TRUE}, url : {UrlA}, expire : {0, Step},
   reply : Webhooks \cup {NoReply}]

InitFiles ==
  InitWith({NoFiles, OldFile(KeyA), DirAt(KeyA), DeniedAt(KeyA)},
           FilesCallers, 0)
EnqueueFiles == \E p \in Callers, body \in FilesBodies : PostArrive(p, body)
NextFiles ==
  \/ EnqueueFiles
  \/ Lookup
  \/ Opened
  \/ Cancel
SpecFiles == InitFiles /\ [][NextFiles]_vars

\* C20: a POST / whose cache path exists and is no regular file, or cannot
\* be opened for another reason than not-found, creates no PendingRequest,
\* attaches no handler and is answered 500 for good; a POST / whose cache
\* path is not found, with no PendingRequest of the key in the table, is
\* enqueued: a PendingRequest with its handler is added.
C20_NonFilePath ==
  [][\A p \in Callers :
       /\ (/\ callers[p].pc \in {"digest", "open"}
           /\ callers'[p] # callers[p]
           /\ files[KeyOfUrl(callers[p].body.url)].kind \notin {"none", "file"})
          => /\ UNCHANGED <<REQUESTS, heap>>
             /\ callers[p].pc = "open" =>
                  (callers'[p].pc = "done" /\ callers'[p].status = 500)
       /\ (/\ callers[p].pc = "open"
           /\ callers'[p].pc # "open"
           /\ files[callers[p].key].kind = "none")
          => /\ callers'[p].status \in {200, 202}
             /\ callers'[p].rid = Len(heap')
             /\ Len(heap') = Len(heap) + 1
             /\ callers'[p].rid \in InTable(REQUESTS')
             /\ Len(heap'[callers'[p].rid].handlers) = 1
       /\ callers[p].status = 500 => callers'[p] = callers[p]]_vars

\* two callers were answered 500, one with a webhook, for a key whose cache
\* path is a directory, and the table is empty
C20_Witness ==
  /\ files[KeyA].kind = "dir"
  /\ REQUESTS = <<>>
  /\ heap = <<>>
  /\ \A p \in Callers : callers[p].pc = "done" /\ callers[p].status = 500
  /\ \E p \in Callers : callers[p].body.reply # NoReply

(***************************************************************************)
(* Removal from the request table by stream waiters (Spec).                *)
(***************************************************************************)
\* caller p's stream ends in this step: its pull ran to the close, or its
\* cancel callback ran
Ends(p) ==
  /\ callers[p].pc \in {"wait", "resolved"}
  /\ callers'[p].pc \in {"cancelled", "closed"}

\* C21 (as claimed): removal is guarded.  In a step in which stream waiters
\* end (end of stream or cancel), every PendingRequest that leaves the
\* request table is the PendingRequest one of these waiters is attached to:
\* no other PendingRequest stored under the same key is removed.
C21_GuardedRemoval ==
  [][\A r \in InTable(REQUESTS) \ InTable(REQUESTS') :
       (\E p \in Callers : Ends(p))
       => \E p \in Callers : Ends(p) /\ callers[p].rid = r]_vars

(***************************************************************************)
(* SpecCodec: the cooldown codec and the sweep, applied to the stores the  *)
(* scheduler can have written: a client's entry is encodeTimers of a map   *)
(* from queue names to unlock times.                                       *)
(***************************************************************************)
CodecTicks == 3
\* the number of entries of a map
CodecEntries == 2

CodecNames == {BEECEPTOR, GOODREADS, EMPTY_HOST}
CodecTimes == {StartAt + k * Step : k \in 1..CodecTicks}
\* the maps with at most CodecEntries entries, in every insertion order
CodecMaps ==
  {m \in UNION {[1..n -> [name : CodecNames, unlockAt : CodecTimes]] :
                  n \in 0..CodecEntries} :
     \A i, j \in 1..Len(m) : m[i].name = m[j].name => i = j}

InitCodec ==
  /\ now = StartAt
  /\ QUEUES = SeedQueues
  /\ REQUESTS = <<>>
  /\ heap = <<>>
  /\ localStorage \in {[c \in {"A"} |-> encodeTimers(m)] : m \in CodecMaps}
  /\ CLIENTS = << >>
  /\ files = NoFiles
  /\ callers = <<>>
  /\ deliv = <<>>
  /\ ran = {}
  /\ sent = <<>>
  /\ get = NoGet
  /\ dispatches = <<>>
  /\ lastAt = << >>
  /\ fetcher = IdleFetcher
ClockCodec == Tick(StartAt + CodecTicks * Step)
NextCodec ==
  \/ ClockCodec
  \/ Cleanup
SpecCodec == InitCodec /\ [][NextCodec]_vars

\* the entries of m that are not expired at time t
Unexpired(m, t) == SelectSeq(m, LAMBDA e : e.unlockAt > t)
\* a map as the set of its entries
Entries(m) == Range(m)

\* C22 (as claimed): the cooldown codec round-trips.  At every time, for
\* every map m whose encoding a client's store entry holds,
\* decodeTimers(encodeTimers(m)) has exactly the unexpired entries of m,
\* each with its queue name and its value; the empty map is encoded as the
\* empty string; and the sweep deletes the entry exactly when m has no
\* unexpired entry and otherwise leaves an entry that decodes to the
\* unexpired entries of m.
C22_CodecRoundTrip ==
  /\ encodeTimers(<<>>) = <<>>
  /\ \A c \in DOMAIN localStorage, m \in CodecMaps :
       localStorage[c] = encodeTimers(m) =>
         LET swept == cleanupLocalStorageTimers(localStorage, now)
         IN /\ Entries(decodeTimers(encodeTimers(m), now))
                 = Entries(Unexpired(m, now))
            /\ c \notin DOMAIN swept <=> Unexpired(m, now) = <<>>
            /\ c \in DOMAIN swept
                 => Entries(decodeTimers(swept[c], now))
                      = Entries(Unexpired(m, now))

(***************************************************************************)
(* SpecAlias: enqueues by the name and by the alias of one queue, and of   *)
(* another queue with the same path.                                       *)
(***************************************************************************)
AliasCallers == 2
AliasTicks == 1

AliasBodies ==
  [valid : {TRUE}, url : {UrlG, UrlW, UrlA}, expire : {0}, reply : {NoReply}]

InitAlias == InitWith({NoFiles}, AliasCallers, 0)
ClockAlias == Tick(StartAt + AliasTicks * Step)
PollAlias == GetNext({HeaderA})
EnqueueAlias == \E p \in Callers, body \in AliasBodies : PostArrive(p, body)
NextAlias ==
  \/ ClockAlias
  \/ PollAlias
  \/ EnqueueAlias
  \/ Lookup
  \/ Opened
  \/ Cancel
SpecAlias == InitAlias /\ [][NextAlias]_vars

\* the canonical name of the queue the host of url resolves to
CanonicalOf(url) == QUEUES[url.hostname].name
\* the host names that are registered as aliases
AliasNames == {h \in DOMAIN QUEUES : QUEUES[h].name # h}

\* C23 (as claimed): key and queue agree.  After every step, every
\* PendingRequest of the table has the key <canonical queue name,
\* digest(path + query)> of its URL, its queue field is that canonical name
\* and no alias; a GET / that gives it to a client stores the cooldown under
\* that name; two waiting enqueues with hosts of one queue and the same path
\* and query are attached to the same PendingRequest; and two
\* PendingRequests of different queues have different keys.
C23_KeyAndQueue ==
  [][/\ \A r \in InTable(REQUESTS') :
          /\ heap'[r].key = KeyOf(CanonicalOf(heap'[r].href),
                                  heap'[r].href.pathname \o heap'[r].href.search)
          /\ heap'[r].queue = CanonicalOf(heap'[r].href)
          /\ heap'[r].queue \notin AliasNames
     /\ handleRequestNextInQueue(HeaderA) /\ get'.status = 200 =>
          CooldownOf(localStorage', "A", CanonicalOf(heap[get'.rid].href), now)
            # Undefined
     /\ \A p, q \in Callers :
          (/\ callers'[p].pc = "wait" /\ callers'[q].pc = "wait"
           /\ CanonicalOf(callers'[p].body.url) = CanonicalOf(callers'[q].body.url)
           /\ callers'[p].body.url.pathname = callers'[q].body.url.pathname
           /\ callers'[p].body.url.search = callers'[q].body.url.search)
          => callers'[p].rid = callers'[q].rid
     /\ \A r1, r2 \in InTable(REQUESTS') :
          heap'[r1].queue # heap'[r2].queue => heap'[r1].key # heap'[r2].key]_vars

(***************************************************************************)
(* SpecLive: one client that keeps polling GET / while time advances.  The *)
(* requests are enqueued with a webhook and never delivered, so they stay  *)
(* in the request table.  The client is a fetcher loop: it issues GET /    *)
(* until the answer is 204 and then sleeps for its poll interval, which is *)
(* when the clock ticks.                                                   *)
(***************************************************************************)
LiveCallers == 2
LiveTicks == 13

LiveBodies ==
  [valid : {TRUE}, url : {UrlG, UrlH}, expire : {0}, reply : Webhooks]
\* the time the run ends at
LiveEnd == StartAt + LiveTicks * Step

\* the last GET / of the client was answered 204 at the current time
Sleeping ==
  /\ clientIdOf(HeaderA) \in DOMAIN CLIENTS
  /\ CLIENTS[clientIdOf(HeaderA)].activeAt = now
  /\ get.status = 204

InitLive == InitWith({NoFiles}, LiveCallers, 0)
ClockLive == Sleeping /\ Tick(LiveEnd)
PollLive == GetNext({HeaderA})
EnqueueLive == \E p \in Callers, body \in LiveBodies : PostArrive(p, body)
NextLive ==
  \/ ClockLive
  \/ PollLive
  \/ EnqueueLive
  \/ Lookup
  \/ Opened
\* the sleep of the client ends
SpecLive == InitLive /\ [][NextLive]_vars /\ WF_vars(ClockLive)

ABORT_AFTER == 10000
\* setTimeout(resolve, attempts * 750)
BACKOFF == 750
\* the pause before the POST to the dispatcher
PAUSE == 5000

\* the number of executions of a run
FetchExecutions == 2
\* the times (ms) an answer of the upstream site can take
FetchDurations == {0, 1000}
FetchStatuses == {200, 429, 403}
FetchErrors == {"body failed", "connection refused"}

NewExecution(key) ==
  [key |-> key, pc |-> "new", attempts |-> 0, at |-> 0, due |-> 0,
   aborted |-> FALSE, status |-> 0, outcome |-> "none"]
\* the execution returns a result
Settle(e, outcome) == [e EXCEPT !.pc = "settled", !.outcome = outcome]
\* execRequest after its backoff: the aborted test, then fetch(href)
afterBackoff(e) ==
  IF e.aborted THEN Settle(e, "aborted") ELSE [e EXCEPT !.pc = "fetch"]
\* execRequest(attempts), up to its first await
execRequest(e, attempts) ==
  IF attempts > 0
  THEN [e EXCEPT !.pc = "backoff", !.attempts = attempts,
                 !.due = e.at + attempts * BACKOFF]
  ELSE afterBackoff([e EXCEPT !.attempts = attempts])

Executions == DOMAIN fetcher.executions
Dispatcher ==
  UNCHANGED <<now, QUEUES, REQUESTS, heap, localStorage, CLIENTS, files,
              callers, deliv, ran, sent, get, dispatches, lastAt>>
\* execution i becomes e
Becomes(i, e) ==
  /\ fetcher' = [fetcher EXCEPT !.executions[i] = e]
  /\ Dispatcher

\* the dispatcher answers the GET / of getNextRequest
FetcherPoll(status, key) ==
  /\ fetcher.pc = "polling"
  /\ status = 200 => Len(fetcher.executions) < FetchExecutions
  /\ fetcher' =
       IF status = 204 THEN [fetcher EXCEPT !.pc = "awaiting"]
       ELSE IF status # 200 THEN [fetcher EXCEPT !.pc = "failed"]
       ELSE [fetcher EXCEPT !.executions =
               Append(@, execRequest(NewExecution(key), 0))]
  /\ Dispatcher

\* the upstream site answers the fetch of execution i after d ms
UpstreamAnswers(i, d, status) ==
  LET e == fetcher.executions[i]
      e1 == [e EXCEPT !.at = e.at + d]
  IN /\ e.pc = "fetch"
     /\ ~e.aborted
     /\ e.at + d < ABORT_AFTER
     /\ Becomes(i, IF status \in {429, 403}
                   THEN execRequest(e1, e.attempts + 1)
                   ELSE [e1 EXCEPT !.pc = "body", !.status = status])

\* the fetch, or the read of the body, of execution i fails after d ms
UpstreamFails(i, d, message) ==
  LET e == fetcher.executions[i]
      e1 == [e EXCEPT !.at = e.at + d]
  IN /\ e.pc \in {"fetch", "body"}
     /\ ~e.aborted
     /\ e.at + d < ABORT_AFTER
     /\ Becomes(i, IF message = "body failed"
                   THEN execRequest(e1, e.attempts + 1)
                   ELSE Settle(e1, "error"))

\* response.arrayBuffer() of execution i is there after d ms
BodyArrives(i, d) ==
  LET e == fetcher.executions[i]
  IN /\ e.pc = "body"
     /\ ~e.aborted
     /\ e.at + d < ABORT_AFTER
     /\ Becomes(i, [e EXCEPT !.pc = "pause", !.at = e.at + d,
                             !.due = e.at + d + PAUSE])

\* the timeout of the backoff of execution i fires (if it was not cleared)
BackoffEnds(i) ==
  LET e == fetcher.executions[i]
  IN /\ e.pc = "backoff"
     /\ ~e.aborted
     /\ e.due <= ABORT_AFTER
     /\ Becomes(i, afterBackoff([e EXCEPT !.at = e.due]))

\* the abort signal of execution i fires: the listener of a pending backoff
\* clears its timeout, a pending fetch or body read fails and is caught
SignalAborts(i) ==
  LET e == fetcher.executions[i]
      e1 == [e EXCEPT !.aborted = TRUE, !.at = ABORT_AFTER]
  IN /\ e.pc # "settled"
     /\ ~e.aborted
     /\ e.pc \in {"backoff", "pause"} => e.due >= ABORT_AFTER
     /\ Becomes(i, IF e.pc \in {"fetch", "body"}
                   THEN Settle(e1, "aborted") ELSE e1)

\* the pause of execution i is over: it POSTs the body to the dispatcher
PauseEnds(i) ==
  LET e == fetcher.executions[i]
  IN /\ e.pc = "pause"
     /\ e.aborted \/ e.due <= ABORT_AFTER
     /\ Becomes(i, [e EXCEPT !.pc = "post", !.at = e.due])

\* the POST of execution i is answered, or fails (the promise is returned
\* without await: its rejection is the rejection of the execution)
PostEnds(i, answered) ==
  LET e == fetcher.executions[i]
  IN /\ e.pc = "post"
     /\ Becomes(i, Settle(e, IF answered THEN "status" ELSE "rejected"))

\* Promise.allSettled(pending.map(req => req.execution))
RunEnds ==
  /\ fetcher.pc = "awaiting"
  /\ \A i \in Executions : fetcher.executions[i].pc = "settled"
  /\ fetcher' = [fetcher EXCEPT !.pc = "terminated"]
  /\ Dispatcher

\* the keys of the requests the dispatcher gives to the run, in order
FetchKeys == <<KeyA, KeyB>>
InitFetch == InitWith({NoFiles}, 0, 0)
PollFetch ==
  \E status \in {200, 204, 500} :
    FetcherPoll(status,
                FetchKeys[1 + (Len(fetcher.executions) % Len(FetchKeys))])
Upstream ==
  \E i \in Executions, d \in FetchDurations, status \in FetchStatuses :
    UpstreamAnswers(i, d, status)
UpstreamError ==
  \E i \in Executions, d \in FetchDurations, message \in FetchErrors :
    UpstreamFails(i, d, message)
BodyDone == \E i \in Executions, d \in FetchDurations : BodyArrives(i, d)
BackoffDone == \E i \in Executions : BackoffEnds(i)
Aborts == \E i \in Executions : SignalAborts(i)
PauseDone == \E i \in Executions : PauseEnds(i)
PostDone == \E i \in Executions, answered \in BOOLEAN : PostEnds(i, answered)
NextFetch ==
  \/ PollFetch
  \/ Upstream
  \/ UpstreamError
  \/ BodyDone
  \/ BackoffDone
  \/ Aborts
  \/ PauseDone
  \/ PostDone
  \/ RunEnds
\* timers fire and the requests of the fetcher are answered or fail
SpecFetch == InitFetch /\ [][NextFetch]_vars /\ WF_vars(NextFetch)

\* C25 (as claimed): fetcher executions settle.  Every execution that was
\* started eventually settles (it returns {key, status} or {key, error};
\* the rejection of a failed POST is counted as settled too), and a run
\* that awaits its executions eventually terminates.
C25_ExecutionsSettle ==
  /\ \A i \in 1..FetchExecutions :
       (i \in Executions)
         ~> (i \in Executions /\ fetcher.executions[i].pc = "settled")
  /\ (fetcher.pc = "awaiting") ~> (fetcher.pc = "terminated")

====
